---- MODULE Spec2Model ----
(***************************************************************************)
(* A model of dsf_cue_split.py: the DSF header reader, the ID3v2.3 tag     *)
(* builder and appender, the block index arithmetic, the track writer,     *)
(* the CUE parser and the splitter loop.                                   *)
(*                                                                         *)
(* A file is the sequence of its bytes (0..255).  Integers are packed and  *)
(* unpacked byte by byte as struct.pack / struct.unpack do; every field of *)
(* the files built here is below 2^31, so the upper bytes of an 8-byte     *)
(* field are 0.  Text is a sequence of byte codes (its UTF-8 encoding).    *)
(*                                                                         *)
(* Three specifications share the variables:                               *)
(*   SpecFile   read_dsf_header, write_dsf_track and write_id3_to_dsf on   *)
(*              one track, statement by statement;                         *)
(*   SpecCue    parse_cue, one line per step;                              *)
(*   SpecSplit  split_dsf_cue, one loop iteration per step.                *)
(***************************************************************************)
EXTENDS Integers, Sequences, FiniteSets, TLC

VARIABLES
    pc,            \* position in the code being run
    fs,            \* the directory: file name -> bytes, or NoFile
    header,        \* the descriptor read_dsf_header returned for the source
    start_block,   \* write_dsf_track's arguments
    end_block,
    remaining,     \* write_dsf_track's copy loop: bytes still to deliver
    srcpos,        \* write_dsf_track's copy loop: position of the handle src
    log,           \* what was printed, in order
    tags,          \* write_id3_to_dsf's argument
    tag_blob,      \* write_id3_to_dsf: the built tag
    old_total,     \* write_id3_to_dsf: total size read from the header
    reread,        \* read_dsf_header applied to the written track
    lines,         \* parse_cue: the lines consumed so far
    album_meta,    \* parse_cue: album fields
    tracks,        \* parse_cue: the track list (split_dsf_cue reads it)
    current_file,  \* parse_cue: the FILE context
    current_track, \* parse_cue: index in tracks of the open track, or 0 (None)
    i,             \* split_dsf_cue: loop index (1-based)
    dsf_headers,   \* split_dsf_cue: header cache, file name -> descriptor
    ranges         \* split_dsf_cue: (start_block, end_block) handed to
                   \* write_dsf_track, per track

vars == << pc, fs, header, start_block, end_block, remaining, srcpos, log,
           tags, tag_blob, old_total, reread, lines, album_meta, tracks,
           current_file, current_track, i, dsf_headers, ranges >>

---------------------------------------------------------------------------
(* Bytes *)

NoFile == "NoFile"

Min(a, b) == IF a < b THEN a ELSE b

Max(a, b) == IF a > b THEN a ELSE b

\* b'\x00' * n
Zeros(n) == [k \in 1..n |-> 0]

\* struct.pack('<Q', n) with w = 8, struct.pack('<I', n) with w = 4
RECURSIVE PackLE(_, _)
PackLE(n, w) == IF w = 0 THEN << >> ELSE << n % 256 >> \o PackLE(n \div 256, w - 1)

\* struct.pack('>I', n) with w = 4
RECURSIVE PackBE(_, _)
PackBE(n, w) == IF w = 0 THEN << >> ELSE PackBE(n \div 256, w - 1) \o << n % 256 >>

\* struct.unpack('<Q', bs)[0], struct.unpack('<I', bs)[0]
RECURSIVE UnpackLE(_)
UnpackLE(bs) == IF bs = << >> THEN 0 ELSE Head(bs) + 256 * UnpackLE(Tail(bs))

\* f.seek(pos); f.read(n): at most n bytes, fewer at the end of the file
ReadAt(f, pos, n) == SubSeq(f, pos + 1, Min(pos + n, Len(f)))

\* f.seek(pos); f.write(bs) inside or at the end of the file
WriteAt(f, pos, bs) ==
    [k \in 1..Max(Len(f), pos + Len(bs)) |->
        IF k > pos /\ k <= pos + Len(bs) THEN bs[k - pos] ELSE f[k]]

TagDSD == << 68, 83, 68, 32 >>      \* b'DSD '

TagFmt == << 102, 109, 116, 32 >>   \* b'fmt '

TagData == << 100, 97, 116, 97 >>   \* b'data'

---------------------------------------------------------------------------
(* read_dsf_header *)

\* The ValueError / struct.error the reader raises, as a descriptor with ok
\* FALSE; err names the statement that raised.
ReadError(e) ==
    [ok |-> FALSE, err |-> e, total_file_size |-> 0, metadata_offset |-> 0,
     fmt_chunk_size |-> 0, fmt_version |-> 0, format_id |-> 0,
     channel_type |-> 0, channel_num |-> 0, sample_rate |-> 0,
     bits_per_sample |-> 0, sample_count |-> 0, block_size |-> 0,
     data_offset |-> 0, data_size |-> 0]

\* The reads of read_dsf_header in order: 4 bytes of magic, two '<Q' (the
\* first is stored as total_file_size, the second as metadata_offset), then
\* the fmt tag, '<Q' size, six '<I', '<Q' sample count, '<I' block size, then
\* the data tag and its '<Q' size; data_offset is f.tell() after them.  The
\* handle only ever moves by the bytes read.
read_dsf_header(f) ==
    IF ReadAt(f, 0, 4) # TagDSD THEN ReadError("magic")
    ELSE IF Len(f) < 20 THEN ReadError("struct")
    ELSE IF ReadAt(f, 20, 4) # TagFmt THEN ReadError("fmt")
    ELSE IF Len(f) < 68 THEN ReadError("struct")
    ELSE IF ReadAt(f, 68, 4) # TagData THEN ReadError("data")
    ELSE IF Len(f) < 80 THEN ReadError("struct")
    ELSE [ok |-> TRUE, err |-> "",
          total_file_size |-> UnpackLE(ReadAt(f, 4, 8)),
          metadata_offset |-> UnpackLE(ReadAt(f, 12, 8)),
          fmt_chunk_size  |-> UnpackLE(ReadAt(f, 24, 8)),
          fmt_version     |-> UnpackLE(ReadAt(f, 32, 4)),
          format_id       |-> UnpackLE(ReadAt(f, 36, 4)),
          channel_type    |-> UnpackLE(ReadAt(f, 40, 4)),
          channel_num     |-> UnpackLE(ReadAt(f, 44, 4)),
          sample_rate     |-> UnpackLE(ReadAt(f, 48, 4)),
          bits_per_sample |-> UnpackLE(ReadAt(f, 52, 4)),
          sample_count    |-> UnpackLE(ReadAt(f, 56, 8)),
          block_size      |-> UnpackLE(ReadAt(f, 64, 4)),
          data_offset     |-> 80,
          data_size       |-> UnpackLE(ReadAt(f, 72, 8)) - 12]

---------------------------------------------------------------------------
(* ID3v2.3 tag builder *)

\* _id3_syncsafe: four bytes, seven bits each, most significant first
id3_syncsafe(n) ==
    << (n \div 2097152) % 128, (n \div 16384) % 128, (n \div 128) % 128, n % 128 >>

\* _id3_text_frame: nothing for an empty text; else the 4-byte id, the
\* big-endian length of the payload, two flag bytes, the encoding byte 0x03
\* and the text
id3_text_frame(frame_id, text) ==
    IF text = << >> THEN << >>
    ELSE frame_id \o PackBE(Len(text) + 1, 4) \o << 0, 0 >> \o << 3 >> \o text

TIT2 == << 84, 73, 84, 50 >>

TPE1 == << 84, 80, 69, 49 >>

TALB == << 84, 65, 76, 66 >>

TRCK == << 84, 82, 67, 75 >>

TCON == << 84, 67, 79, 78 >>

TYER == << 84, 89, 69, 82 >>

\* The frames of build_id3v2_tag, in its order
TagFrames(t) ==
    id3_text_frame(TIT2, t.title)
    \o id3_text_frame(TPE1, t.artist)
    \o id3_text_frame(TALB, t.album)
    \o (IF t.track_num # << >>
        THEN id3_text_frame(TRCK,
                 IF t.total_tracks # << >>
                 THEN t.track_num \o << 47 >> \o t.total_tracks
                 ELSE t.track_num)
        ELSE << >>)
    \o id3_text_frame(TCON, t.genre)
    \o id3_text_frame(TYER, t.date)

\* build_id3v2_tag: b'' when no frame was built, else b'ID3' 03 00 00, the
\* syncsafe length of the frames, and the frames
build_id3v2_tag(t) ==
    IF TagFrames(t) = << >> THEN << >>
    ELSE << 73, 68, 51 >> \o << 3, 0 >> \o << 0 >>
         \o id3_syncsafe(Len(TagFrames(t))) \o TagFrames(t)

---------------------------------------------------------------------------
(* Block index arithmetic *)

\* time_to_samples: int((minutes * 60 + seconds + frames / 75.0) * rate).
\* The quotient is computed exactly here.  The code computes it in doubles,
\* which can round a product that is a whole number to just below it; at the
\* sample rate the model's sources carry (8) the two agree for every
\* timecode, so the truncation below is the code's value.
time_to_samples(minutes, seconds, frames, sample_rate) ==
    (((minutes * 60 + seconds) * 75 + frames) * sample_rate) \div 75

\* samples_to_block_index
samples_to_block_index(samples, block_size) == samples \div (block_size * 8)

---------------------------------------------------------------------------
(* write_dsf_track: the values it computes and the bytes it writes *)

FrameSize(h) == h.block_size * h.channel_num

NewSampleCount(h, sb, eb) == (eb - sb) * h.block_size * 8

NewDataPayload(h, sb, eb) == (eb - sb) * FrameSize(h)

NewDataChunkSize(h, sb, eb) == 12 + NewDataPayload(h, sb, eb)

NewTotalSize(h, sb, eb) == 28 + h.fmt_chunk_size + NewDataChunkSize(h, sb, eb)

\* the DSD chunk: tag, 28, the new total size, 0 for "no metadata"
DsdChunk(h, sb, eb) ==
    TagDSD \o PackLE(28, 8) \o PackLE(NewTotalSize(h, sb, eb), 8) \o PackLE(0, 8)

\* the fmt chunk's 52 bytes: the descriptor's fields, the new sample count,
\* and 4 reserved bytes
FmtChunk(h, sb, eb) ==
    TagFmt \o PackLE(h.fmt_chunk_size, 8) \o PackLE(h.fmt_version, 4)
    \o PackLE(h.format_id, 4) \o PackLE(h.channel_type, 4)
    \o PackLE(h.channel_num, 4) \o PackLE(h.sample_rate, 4)
    \o PackLE(h.bits_per_sample, 4) \o PackLE(NewSampleCount(h, sb, eb), 8)
    \o PackLE(h.block_size, 4) \o PackLE(0, 4)

\* if fmt_chunk_size > 52: src.seek(28 + 52); src.read(fmt_chunk_size - 52)
FmtExtra(src, h) ==
    IF h.fmt_chunk_size > 52 THEN ReadAt(src, 28 + 52, h.fmt_chunk_size - 52)
    ELSE << >>

DataChunkHeader(h, sb, eb) == TagData \o PackLE(NewDataChunkSize(h, sb, eb), 8)

\* src_data_start
SrcDataStart(h, sb) == h.data_offset + sb * FrameSize(h)

\* buf_size = frame_size * 64
BufSize(h) == FrameSize(h) * 64

\* A padding of one buffer's length only
PadBytesOneBuffer(rem, to_read) == Zeros(to_read)

\* Zero padding written when src.read returns nothing: b'\x00' * remaining
PadBytes(rem, to_read) == Zeros(rem)

\* One pass of the copy loop's body from position pos with rem bytes still
\* to deliver: the bytes written, the bytes left, the new position, and
\* whether the loop was left by break.
CopyStep(src, pos, rem, buf) ==
    LET to_read == Min(buf, rem)
        data    == ReadAt(src, pos, to_read)
    IN  IF data = << >>
        THEN [written |-> PadBytes(rem, to_read), rem |-> rem, pos |-> pos,
              brk |-> TRUE]
        ELSE [written |-> data, rem |-> rem - Len(data),
              pos |-> pos + Len(data), brk |-> FALSE]

\* The whole loop: while remaining > 0
RECURSIVE CopyLoop(_, _, _, _)
CopyLoop(src, pos, rem, buf) ==
    IF rem <= 0 THEN << >>
    ELSE LET st == CopyStep(src, pos, rem, buf)
         IN  IF st.brk THEN st.written
             ELSE st.written \o CopyLoop(src, st.pos, st.rem, buf)

\* The file write_dsf_track writes when the range is not empty
TrackFile(src, h, sb, eb) ==
    DsdChunk(h, sb, eb) \o FmtChunk(h, sb, eb) \o FmtExtra(src, h)
    \o DataChunkHeader(h, sb, eb)
    \o CopyLoop(src, SrcDataStart(h, sb), NewDataPayload(h, sb, eb), BufSize(h))

\* write_dsf_track run to its end: what is at out_path afterwards, given
\* what was there (out); an empty range leaves it as it was
write_dsf_track(out, src, h, sb, eb) ==
    IF eb - sb <= 0 THEN out ELSE TrackFile(src, h, sb, eb)

---------------------------------------------------------------------------
(* write_id3_to_dsf: the bytes it writes *)

\* f.seek(12); f.write(struct.pack('<Q', new_total))
PatchTotal(f, new_total) == WriteAt(f, 12, PackLE(new_total, 8))

\* f.seek(20); f.write(struct.pack('<Q', metadata_offset))
PatchMeta(f, metadata_offset) == WriteAt(f, 20, PackLE(metadata_offset, 8))

\* f.seek(0, 2); f.write(tag_blob)
AppendTag(f, blob) == f \o blob

---------------------------------------------------------------------------
(* Input files *)

\* Largest block count of a source in SpecFile: more than two copy buffers
MaxBlocks == 130

\* n payload bytes, none of them 0, so that padding is told from data
Payload(n) == [k \in 1..n |-> 1 + (k % 200)]

\* The six 4-byte fields, the sample count and the block size of a format
\* chunk: version 1, format id 0, channel type 2, 1 bit per sample
FmtFields(chan, rate, bsize, nblocks) ==
    PackLE(1, 4) \o PackLE(0, 4) \o PackLE(2, 4) \o PackLE(chan, 4)
    \o PackLE(rate, 4) \o PackLE(1, 4) \o PackLE(nblocks * bsize * 8, 8)
    \o PackLE(bsize, 4)

\* A container in the documented layout: the 28-byte container chunk (tag,
\* chunk size, total file size, metadata pointer), a format chunk of
\* fmt_size bytes (52 and fmt_size - 52 opaque bytes of value 238), the
\* 12-byte payload chunk header, and avail payload bytes of the nblocks
\* declared.
ContainerFile(meta, fmt_size, chan, rate, bsize, nblocks, avail) ==
    TagDSD \o PackLE(28, 8)
    \o PackLE(28 + fmt_size + 12 + nblocks * bsize * chan, 8) \o PackLE(meta, 8)
    \o TagFmt \o PackLE(fmt_size, 8) \o FmtFields(chan, rate, bsize, nblocks)
    \o PackLE(0, 4) \o [k \in 1..(fmt_size - 52) |-> 238]
    \o TagData \o PackLE(12 + nblocks * bsize * chan, 8) \o Payload(avail)

\* A file that follows the reads of read_dsf_header instead: the tag, two
\* 8-byte fields, a format chunk of 48 bytes whose size field says fmt_size,
\* the payload chunk header at byte 68 and the payload from byte 80.
PackedFile(meta, fmt_size, chan, rate, bsize, nblocks, avail) ==
    TagDSD \o PackLE(80 + nblocks * bsize * chan, 8) \o PackLE(meta, 8)
    \o TagFmt \o PackLE(fmt_size, 8) \o FmtFields(chan, rate, bsize, nblocks)
    \o TagData \o PackLE(12 + nblocks * bsize * chan, 8) \o Payload(avail)

\* Sources of SpecFile: block size 1, one or two channels, 3 or MaxBlocks
\* blocks declared, the payload whole or cut short
FileContainers ==
    { ContainerFile(meta, fsz, 2, 2822400, 1, 3, 6) :
        meta \in {0, 98}, fsz \in {52, 56} }

FilePacked ==
    UNION { { PackedFile(0, fsz, chan, 2822400, 1, 3, av) :
                fsz \in {48, 52, 56}, av \in {0, 2, 3 * chan} } :
            chan \in {1, 2} }
    \cup
    { PackedFile(0, fsz, 1, 2822400, 1, MaxBlocks, av) :
        fsz \in {48, 52, 56}, av \in {0, 70, MaxBlocks} }

FileSources == FileContainers \cup FilePacked

\* Block ranges handed to write_dsf_track in SpecFile
FileRanges ==
    { << 0, 0 >>, << 1, 1 >>, << 2, 1 >>, << 0, 3 >>, << 1, 3 >>,
      << 0, MaxBlocks >>, << 1, MaxBlocks >> }

NoTags ==
    [title |-> << >>, artist |-> << >>, album |-> << >>, track_num |-> << >>,
     total_tracks |-> << >>, genre |-> << >>, date |-> << >>]

\* Tag sets of SpecFile: none; title "A", artist "B", track "3" of "10";
\* a total with no track number (builds nothing); a genre alone
FileTags ==
    { NoTags,
      [NoTags EXCEPT !.title = << 65 >>, !.artist = << 66 >>,
                     !.track_num = << 51 >>, !.total_tracks = << 49, 48 >>],
      [NoTags EXCEPT !.total_tracks = << 49, 48 >>],
      [NoTags EXCEPT !.genre = << 82, 111, 99, 107 >>] }

SRC == "src.dsf"

OUT == "out.dsf"

---------------------------------------------------------------------------
(* SpecFile: one track, statement by statement.  The output file holds the  *)
(* bytes written to its handle so far, in order.                            *)

cueVars == << lines, album_meta, tracks, current_file, current_track >>

splitVars == << i, dsf_headers, ranges >>

copyVars == << remaining, srcpos >>

tagVars == << tags, tag_blob, old_total >>

InitFile ==
    /\ pc = "read"
    /\ \E f \in FileSources : fs = [n \in {SRC, OUT} |-> IF n = SRC THEN f ELSE NoFile]
    /\ header = ReadError("unread")
    /\ \E r \in FileRanges : start_block = r[1] /\ end_block = r[2]
    /\ remaining = 0
    /\ srcpos = 0
    /\ log = << >>
    /\ tags \in FileTags
    /\ tag_blob = << >>
    /\ old_total = 0
    /\ reread = ReadError("unread")
    /\ lines = << >>
    /\ album_meta = << >>
    /\ tracks = << >>
    /\ current_file = ""
    /\ current_track = 0
    /\ i = 0
    /\ dsf_headers = << >>
    /\ ranges = << >>

\* read_dsf_header(src_path); an exception ends the run
ReadSource ==
    /\ pc = "read"
    /\ header' = read_dsf_header(fs[SRC])
    /\ pc' = IF header'.ok THEN "w_begin" ELSE "raised"
    /\ UNCHANGED << fs, start_block, end_block, copyVars, log, tagVars, reread,
                    cueVars, splitVars >>

\* write_dsf_track, lines 184-192: the zero-length test
TrackBegin ==
    /\ pc = "w_begin"
    /\ IF end_block - start_block <= 0
       THEN /\ log' = Append(log, "WARNING: zero-length track, skipping")
            /\ pc' = "t_build"
       ELSE /\ log' = log
            /\ pc' = "w_open"
    /\ UNCHANGED << fs, header, start_block, end_block, copyVars, tagVars,
                    reread, cueVars, splitVars >>

\* line 200: open(out_path, 'wb') creates the file, or empties it
TrackOpen ==
    /\ pc = "w_open"
    /\ fs' = [fs EXCEPT ![OUT] = << >>]
    /\ pc' = "w_dsd"
    /\ UNCHANGED << header, start_block, end_block, copyVars, log, tagVars,
                    reread, cueVars, splitVars >>

\* lines 202-205
TrackWriteDsd ==
    /\ pc = "w_dsd"
    /\ fs' = [fs EXCEPT ![OUT] = @ \o DsdChunk(header, start_block, end_block)]
    /\ pc' = "w_fmt"
    /\ UNCHANGED << header, start_block, end_block, copyVars, log, tagVars,
                    reread, cueVars, splitVars >>

\* lines 208-218
TrackWriteFmt ==
    /\ pc = "w_fmt"
    /\ fs' = [fs EXCEPT ![OUT] = @ \o FmtChunk(header, start_block, end_block)]
    /\ pc' = "w_extra"
    /\ UNCHANGED << header, start_block, end_block, copyVars, log, tagVars,
                    reread, cueVars, splitVars >>

\* lines 221-224
TrackWriteExtra ==
    /\ pc = "w_extra"
    /\ fs' = [fs EXCEPT ![OUT] = @ \o FmtExtra(fs[SRC], header)]
    /\ pc' = "w_datahdr"
    /\ UNCHANGED << header, start_block, end_block, copyVars, log, tagVars,
                    reread, cueVars, splitVars >>

\* lines 227-236: the data chunk header, the seek, the loop's variables
TrackWriteDataHeader ==
    /\ pc = "w_datahdr"
    /\ fs' = [fs EXCEPT ![OUT] = @ \o DataChunkHeader(header, start_block, end_block)]
    /\ srcpos' = SrcDataStart(header, start_block)
    /\ remaining' = NewDataPayload(header, start_block, end_block)
    /\ pc' = "w_copy"
    /\ UNCHANGED << header, start_block, end_block, log, tagVars, reread,
                    cueVars, splitVars >>

\* lines 237-245: the loop test and one pass of the body
TrackCopy ==
    /\ pc = "w_copy"
    /\ IF remaining > 0
       THEN LET st == CopyStep(fs[SRC], srcpos, remaining, BufSize(header))
            IN  /\ fs' = [fs EXCEPT ![OUT] = @ \o st.written]
                /\ remaining' = st.rem
                /\ srcpos' = st.pos
                /\ pc' = IF st.brk THEN "w_close" ELSE "w_copy"
       ELSE /\ pc' = "w_close"
            /\ UNCHANGED << fs, copyVars >>
    /\ UNCHANGED << header, start_block, end_block, log, tagVars, reread,
                    cueVars, splitVars >>

\* The message of lines 247-249
OkMessage == "OK"

\* the with block ends (both files closed); lines 247-249 print
TrackClose ==
    /\ pc = "w_close"
    /\ log' = Append(log, OkMessage)
    /\ pc' = "w_done"
    /\ UNCHANGED << fs, header, start_block, end_block, copyVars, tagVars,
                    reread, cueVars, splitVars >>

\* The written track is read back with read_dsf_header before it is tagged
Reread ==
    /\ pc = "w_done"
    /\ reread' = read_dsf_header(fs[OUT])
    /\ pc' = "t_build"
    /\ UNCHANGED << fs, header, start_block, end_block, copyVars, log, tagVars,
                    cueVars, splitVars >>

\* write_id3_to_dsf, lines 135-137
TagBuild ==
    /\ pc = "t_build"
    /\ tag_blob' = build_id3v2_tag(tags)
    /\ pc' = IF tag_blob' = << >> THEN "done" ELSE "t_open"
    /\ UNCHANGED << fs, header, start_block, end_block, copyVars, log, tags,
                    old_total, reread, cueVars, splitVars >>

\* lines 139-149: open(dsf_path, 'r+b') raises when the file does not exist;
\* the assert on the magic; dsd_chunk_size and old_total are read
TagOpen ==
    /\ pc = "t_open"
    /\ IF fs[OUT] = NoFile
       THEN pc' = "raised" /\ old_total' = old_total
       ELSE IF ReadAt(fs[OUT], 0, 4) # TagDSD \/ Len(fs[OUT]) < 20
       THEN pc' = "raised" /\ old_total' = old_total
       ELSE pc' = "t_patch_total" /\ old_total' = UnpackLE(ReadAt(fs[OUT], 12, 8))
    /\ UNCHANGED << fs, header, start_block, end_block, copyVars, log, tags,
                    tag_blob, reread, cueVars, splitVars >>

\* lines 152-153
TagPatchTotal ==
    /\ pc = "t_patch_total"
    /\ fs' = [fs EXCEPT ![OUT] = PatchTotal(@, old_total + Len(tag_blob))]
    /\ pc' = "t_patch_meta"
    /\ UNCHANGED << header, start_block, end_block, copyVars, log, tagVars,
                    reread, cueVars, splitVars >>

\* lines 156-157
TagPatchMeta ==
    /\ pc = "t_patch_meta"
    /\ fs' = [fs EXCEPT ![OUT] = PatchMeta(@, old_total)]
    /\ pc' = "t_append"
    /\ UNCHANGED << header, start_block, end_block, copyVars, log, tagVars,
                    reread, cueVars, splitVars >>

\* lines 160-161
TagAppend ==
    /\ pc = "t_append"
    /\ fs' = [fs EXCEPT ![OUT] = AppendTag(@, tag_blob)]
    /\ pc' = "done"
    /\ UNCHANGED << header, start_block, end_block, copyVars, log, tagVars,
                    reread, cueVars, splitVars >>

NextFile ==
    \/ ReadSource
    \/ TrackBegin
    \/ TrackOpen
    \/ TrackWriteDsd
    \/ TrackWriteFmt
    \/ TrackWriteExtra
    \/ TrackWriteDataHeader
    \/ TrackCopy
    \/ TrackClose
    \/ Reread
    \/ TagBuild
    \/ TagOpen
    \/ TagPatchTotal
    \/ TagPatchMeta
    \/ TagAppend

SpecFile == InitFile /\ [][NextFile]_vars

---------------------------------------------------------------------------
(* Properties of SpecFile *)

Out == fs[OUT]

Src == fs[SRC]

\* write_dsf_track ran to its end: its last statement printed
Written == \E k \in 1..Len(log) : log[k] = OkMessage

\* The 8-byte field at byte offset off of file f
Field8(f, off) == UnpackLE(ReadAt(f, off, 8))

\* f is laid out as documented: the container tag, the format tag at byte
\* 28, and the payload tag at byte 28 + the format chunk's declared size
IsContainer(f) ==
    /\ ReadAt(f, 0, 4) = TagDSD
    /\ ReadAt(f, 28, 4) = TagFmt
    /\ ReadAt(f, 28 + Field8(f, 32), 4) = TagData
    /\ Len(f) >= 28 + Field8(f, 32) + 12

\* C1: read_dsf_header applied to a container in the documented layout
\* succeeds, returns as total_file_size and metadata_offset the values
\* stored at byte offsets 12 and 20, and records data_offset = 28 + the
\* format chunk's size + 12.
C1_ReaderReadsContainer ==
    (pc # "read" /\ IsContainer(Src)) =>
        /\ header.ok
        /\ header.total_file_size = Field8(Src, 12)
        /\ header.metadata_offset = Field8(Src, 20)
        /\ header.fmt_chunk_size = Field8(Src, 32)
        /\ header.data_offset = 28 + Field8(Src, 32) + 12

\* C2: read_dsf_header applied to the file write_dsf_track produced returns
\* a descriptor whose format-chunk size, version, format id, channel type,
\* channel count, sample rate, bits per sample and block size are those of
\* the source descriptor.
C2_RoundTripHeader ==
    (pc = "t_build" /\ Written) =>
        /\ reread.ok
        /\ reread.fmt_chunk_size = header.fmt_chunk_size
        /\ reread.fmt_version = header.fmt_version
        /\ reread.format_id = header.format_id
        /\ reread.channel_type = header.channel_type
        /\ reread.channel_num = header.channel_num
        /\ reread.sample_rate = header.sample_rate
        /\ reread.bits_per_sample = header.bits_per_sample
        /\ reread.block_size = header.block_size

\* C5: after write_id3_to_dsf appended a non-empty tag to a freshly written
\* track of S bytes, the total-file-size field is S + the tag's length, the
\* metadata pointer is S, and the tag begins at byte S of the file.
C5_TagRoundTrip ==
    (pc = "done" /\ Written /\ tag_blob # << >>) =>
        LET S == Len(Out) - Len(tag_blob)
        IN  /\ ReadAt(Out, S, Len(tag_blob)) = tag_blob
            /\ Field8(Out, 12) = S + Len(tag_blob)
            /\ Field8(Out, 20) = S

\* Byte offset of the payload in the file write_dsf_track writes: the DSD
\* chunk, the 52 format bytes, the extra format bytes, the 12-byte header
PayloadStart == 28 + 52 + Len(FmtExtra(Src, header)) + 12

\* Bytes the source holds from the start block on, up to the length asked
Delivered ==
    Min(NewDataPayload(header, start_block, end_block),
        Max(0, Len(Src) - SrcDataStart(header, start_block)))

\* C6: when the source delivers only k bytes of the block_count * frame_size
\* asked for, the copy loop ends with an output payload of exactly
\* block_count * frame_size bytes, the k source bytes unmodified followed by
\* zero bytes, and the payload chunk's declared size is that length + 12.
\* While the loop runs, the bytes written and the bytes remaining add up to
\* the length asked for, and each pass either leaves the loop or lowers
\* the bytes remaining (so the loop ends).
C6_TruncatedZeroFill ==
    LET want == NewDataPayload(header, start_block, end_block)
        k    == Delivered
        st   == CopyStep(Src, srcpos, remaining, BufSize(header))
    IN  /\ (pc = "w_copy" /\ k < want) =>
              /\ remaining >= 0
              /\ Len(Out) - PayloadStart + remaining = want
              /\ remaining > 0 => (st.brk \/ st.rem < remaining)
        /\ (pc \in {"w_close", "w_done"} /\ k < want) =>
              /\ Len(Out) = PayloadStart + want
              /\ ReadAt(Out, PayloadStart, k)
                   = ReadAt(Src, SrcDataStart(header, start_block), k)
              /\ \A n \in (PayloadStart + k + 1)..Len(Out) : Out[n] = 0
              /\ Field8(Out, PayloadStart - 8) = 12 + want

\* C6's case: a range longer than two copy buffers, of which the source
\* holds a part that is not a whole number of buffers
C6_Witness ==
    /\ pc = "w_close"
    /\ Delivered > 0
    /\ Delivered < NewDataPayload(header, start_block, end_block)
    /\ Delivered % BufSize(header) # 0
    /\ NewDataPayload(header, start_block, end_block) > 2 * BufSize(header)

WritingTrack ==
    pc \in {"w_dsd", "w_fmt", "w_extra", "w_datahdr", "w_copy", "w_close", "w_done"}

\* C7: at every point of write_dsf_track the output file either does not
\* exist or is whole, with a header whose declared total size is the number
\* of bytes present.
C7_OutputAtomic ==
    WritingTrack =>
        \/ Out = NoFile
        \/ (Len(Out) >= 20 /\ Field8(Out, 12) = Len(Out))

\* C9: whenever write_dsf_track zero-padded the output (it left the copy
\* loop with bytes still remaining), a warning was reported for the track.
C9_TruncationWarned ==
    (pc = "w_done" /\ remaining > 0) =>
        \E k \in 1..Len(log) : log[k] # OkMessage

TaggingTrack == pc \in {"t_patch_total", "t_patch_meta", "t_append", "done"}

\* C10: in write_id3_to_dsf with a non-empty tag, the header declares the
\* new total size, or a metadata pointer other than 0, only when the tag
\* block is already at the end of the file.
C10_WriteThenPatch ==
    (TaggingTrack /\ Written /\ tag_blob # << >>) =>
        ((Field8(Out, 12) = old_total + Len(tag_blob) \/ Field8(Out, 20) # 0)
            => ReadAt(Out, Len(Out) - Len(tag_blob), Len(tag_blob)) = tag_blob)

---------------------------------------------------------------------------
(* SpecCue: parse_cue, one line of the sheet per step.  A line is what the  *)
(* regular expressions of the loop make of it: the directive that matches   *)
(* first and its groups.  Text is a byte sequence; a field never set is the *)
(* empty sequence (no directive stores an empty title, performer or file).  *)

\* Most lines of a cue sheet in SpecCue
MaxLines == 4

fileVars == << fs, header, start_block, end_block, remaining, srcpos, log,
               tags, tag_blob, old_total, reread >>

Line(kind, arg) == [kind |-> kind, arg |-> arg]

\* "Track "
TrackPrefix == << 84, 114, 97, 99, 107, 32 >>

\* The lines a sheet is made of here: FILE "a.dsf" WAVE, REM GENRE Rock,
\* REM DATE 1999, TRACK 01 AUDIO, TRACK 02 AUDIO, TITLE "X", TITLE "Y",
\* PERFORMER "P", INDEX 01 00:01:00, and a line no expression matches
FileLines == { Line("FILE", << 97 >>) }

GenreLines == { Line("GENRE", << 82, 111, 99, 107 >>) }

DateLines == { Line("DATE", << 49, 57, 57, 57 >>) }

TrackLines == { Line("TRACK", << 48, 49 >>), Line("TRACK", << 48, 50 >>) }

TitleLines == { Line("TITLE", << 88 >>), Line("TITLE", << 89 >>) }

PerformerLines == { Line("PERFORMER", << 80 >>) }

IndexLines == { Line("INDEX", << 0, 1, 0 >>) }

OtherLines == { Line("OTHER", << >>) }

NoAlbum == [TITLE |-> << >>, PERFORMER |-> << >>, GENRE |-> << >>, DATE |-> << >>]

\* The dict a TRACK line appends; has_index says whether the index_m,
\* index_s and index_f keys exist
NewTrack(file, num, performer) ==
    [file |-> file, track_num |-> num, title |-> TrackPrefix \o num,
     performer |-> performer, has_index |-> FALSE,
     index_m |-> 0, index_s |-> 0, index_f |-> 0]

\* An INDEX 01 that leaves its track open
AfterIndexStaysOpen(ct) == ct

\* current_track after an accepted INDEX 01: None
AfterIndex(ct) == 0

InitCue ==
    /\ pc = "parse"
    /\ lines = << >>
    /\ album_meta = NoAlbum
    /\ tracks = << >>
    /\ current_file = << >>
    /\ current_track = 0
    /\ fs = << >>
    /\ header = ReadError("unread")
    /\ start_block = 0
    /\ end_block = 0
    /\ remaining = 0
    /\ srcpos = 0
    /\ log = << >>
    /\ tags = NoTags
    /\ tag_blob = << >>
    /\ old_total = 0
    /\ reread = ReadError("unread")
    /\ i = 0
    /\ dsf_headers = << >>
    /\ ranges = << >>

\* The loop takes the next line
Consume(l) ==
    /\ pc = "parse"
    /\ Len(lines) < MaxLines
    /\ lines' = Append(lines, l)

\* lines 277-280
ParseFile ==
    \E l \in FileLines :
        /\ Consume(l)
        /\ current_file' = l.arg
        /\ UNCHANGED << pc, album_meta, tracks, current_track, fileVars, splitVars >>

\* lines 283-286
ParseGenre ==
    \E l \in GenreLines :
        /\ Consume(l)
        /\ album_meta' = [album_meta EXCEPT !.GENRE = l.arg]
        /\ UNCHANGED << pc, tracks, current_file, current_track, fileVars, splitVars >>

\* lines 287-290
ParseDate ==
    \E l \in DateLines :
        /\ Consume(l)
        /\ album_meta' = [album_meta EXCEPT !.DATE = l.arg]
        /\ UNCHANGED << pc, tracks, current_file, current_track, fileVars, splitVars >>

\* lines 293-302
ParseTrack ==
    \E l \in TrackLines :
        /\ Consume(l)
        /\ tracks' = Append(tracks, NewTrack(current_file, l.arg, album_meta.PERFORMER))
        /\ current_track' = Len(tracks) + 1
        /\ UNCHANGED << pc, album_meta, current_file, fileVars, splitVars >>

\* lines 305-311
ParseTitle ==
    \E l \in TitleLines :
        /\ Consume(l)
        /\ IF current_track # 0
           THEN /\ tracks' = [tracks EXCEPT ![current_track].title = l.arg]
                /\ album_meta' = album_meta
           ELSE /\ album_meta' = [album_meta EXCEPT !.TITLE = l.arg]
                /\ tracks' = tracks
        /\ UNCHANGED << pc, current_file, current_track, fileVars, splitVars >>

\* lines 314-320
ParsePerformer ==
    \E l \in PerformerLines :
        /\ Consume(l)
        /\ IF current_track # 0
           THEN /\ tracks' = [tracks EXCEPT ![current_track].performer = l.arg]
                /\ album_meta' = album_meta
           ELSE /\ album_meta' = [album_meta EXCEPT !.PERFORMER = l.arg]
                /\ tracks' = tracks
        /\ UNCHANGED << pc, current_file, current_track, fileVars, splitVars >>

\* lines 323-329: without an open track the line falls through the loop body
ParseIndex ==
    \E l \in IndexLines :
        /\ Consume(l)
        /\ IF current_track # 0
           THEN /\ tracks' = [tracks EXCEPT ![current_track].has_index = TRUE,
                                             ![current_track].index_m = l.arg[1],
                                             ![current_track].index_s = l.arg[2],
                                             ![current_track].index_f = l.arg[3]]
                /\ current_track' = AfterIndex(current_track)
           ELSE UNCHANGED << tracks, current_track >>
        /\ UNCHANGED << pc, album_meta, current_file, fileVars, splitVars >>

\* a line that matches nothing (or is empty after strip) is passed over
ParseOther ==
    \E l \in OtherLines :
        /\ Consume(l)
        /\ UNCHANGED << pc, album_meta, tracks, current_file, current_track,
                        fileVars, splitVars >>

NextCue ==
    \/ ParseFile
    \/ ParseGenre
    \/ ParseDate
    \/ ParseTrack
    \/ ParseTitle
    \/ ParsePerformer
    \/ ParseIndex
    \/ ParseOther

SpecCue == InitCue /\ [][NextCue]_vars

---------------------------------------------------------------------------
(* Properties of SpecCue *)

\* A track is open after the lines ls: a TRACK directive was seen and no
\* INDEX 01 since (the first INDEX 01 after a TRACK is always accepted)
TrackOpenAfter(ls) ==
    \E j \in 1..Len(ls) :
        /\ ls[j].kind = "TRACK"
        /\ \A k \in (j + 1)..Len(ls) : ls[k].kind # "INDEX"

\* Number of TRACK directives in ls: the position in the track list of the
\* track opened last
TracksOpened(ls) == Cardinality({ j \in 1..Len(ls) : ls[j].kind = "TRACK" })

\* C8: a TITLE (PERFORMER) line sets the title (performer) of the track
\* opened last, and nothing of the album, if a TRACK directive was seen with
\* no INDEX 01 since; in every other state it sets the album's title
\* (performer) and leaves the track list as it was.  An INDEX 01 line with
\* no open track changes nothing.
C8_CueScoping ==
    [][ Len(lines') = Len(lines) + 1 =>
          LET l    == lines'[Len(lines')]
              open == TrackOpenAfter(lines)
              n    == TracksOpened(lines)
          IN  /\ l.kind = "TITLE" =>
                   IF open
                   THEN /\ tracks' = [tracks EXCEPT ![n].title = l.arg]
                        /\ album_meta' = album_meta
                   ELSE /\ album_meta' = [album_meta EXCEPT !.TITLE = l.arg]
                        /\ tracks' = tracks
              /\ l.kind = "PERFORMER" =>
                   IF open
                   THEN /\ tracks' = [tracks EXCEPT ![n].performer = l.arg]
                        /\ album_meta' = album_meta
                   ELSE /\ album_meta' = [album_meta EXCEPT !.PERFORMER = l.arg]
                        /\ tracks' = tracks
              /\ (l.kind = "INDEX" /\ ~open) =>
                   UNCHANGED << tracks, album_meta, current_file, current_track >>
      ]_vars

\* C8's case: TRACK 01, its INDEX 01, then TITLE "X", which went to the
\* album and left the track's default title
C8_Witness ==
    /\ Len(lines) >= 3
    /\ lines[Len(lines) - 2].kind = "TRACK"
    /\ lines[Len(lines) - 1].kind = "INDEX"
    /\ lines[Len(lines)] = Line("TITLE", << 88 >>)
    /\ album_meta.TITLE = << 88 >>
    /\ tracks[Len(tracks)].title = TrackPrefix \o tracks[Len(tracks)].track_num
    /\ tracks[Len(tracks)].has_index

---------------------------------------------------------------------------
(* SpecSplit: split_dsf_cue, one pass of its loop per step.  The cue sheet  *)
(* is already parsed; the directory holds the sources.  A file name is its  *)
(* byte sequence, and every file is in the directory of the cue sheet.      *)

\* Most tracks of a cue sheet in SpecSplit
MaxTracks == 3

\* str(n) for n < 10
Str(n) == << 48 + n >>

\* "a", "b": the source files cue sheets name
FileA == << 97 >>

FileB == << 98 >>

\* The k-th track of a parsed sheet: TRACK 0k AUDIO with its default title,
\* bound to file, INDEX 01 00:ss:00
SheetTrack(k, file, ss) ==
    [NewTrack(file, << 48 >> \o Str(k), << >>) EXCEPT
        !.has_index = TRUE, !.index_s = ss]

\* Parsed sheets: up to MaxTracks tracks, each bound to "a", to "b" or to no
\* file (a TRACK before any FILE), starting at second 0, 1 or 2
SheetChoices == { << f, ss >> : f \in {FileA, FileB, << >>}, ss \in 0..2 }

Sheets ==
    UNION { { [k \in 1..n |-> SheetTrack(k, c[k][1], c[k][2])] :
                c \in [1..n -> SheetChoices] } : n \in 0..MaxTracks }

\* The sources: "a" holds 3 blocks of one channel at 8 samples a second and
\* block size 1 (one block a second) in the layout the reader follows; "b"
\* is missing, or a container in the documented layout, or 1 block of two
\* channels in the layout the reader follows
SourceA == PackedFile(0, 52, 1, 8, 1, 3, 3)

SourcesB ==
    { NoFile, ContainerFile(0, 52, 1, 8, 1, 3, 3), PackedFile(0, 52, 2, 8, 1, 1, 2) }

\* re.sub(r'[<>:"/\\|?*]', '_', title)
Sanitize(title) ==
    [k \in 1..Len(title) |->
        IF title[k] \in {60, 62, 58, 34, 47, 92, 124, 63, 42} THEN 95 ELSE title[k]]

\* f"{track_num} - {safe_title}.dsf"
OutName(t) ==
    t.track_num \o << 32, 45, 32 >> \o Sanitize(t.title) \o << 46, 100, 115, 102 >>

\* The names the directory maps: the sources and every name a track of the
\* sheet can be written to
Names(ts) == {FileA, FileB} \cup { OutName(ts[k]) : k \in 1..Len(ts) }

InitSplit ==
    /\ pc = "split"
    /\ tracks \in Sheets
    /\ album_meta = NoAlbum
    /\ \E b \in SourcesB :
         fs = [n \in Names(tracks) |->
                 IF n = FileA THEN SourceA ELSE IF n = FileB THEN b ELSE NoFile]
    /\ i = 0
    /\ dsf_headers = << >>
    /\ ranges = << >>
    /\ log = << >>
    /\ lines = << >>
    /\ current_file = << >>
    /\ current_track = 0
    /\ header = ReadError("unread")
    /\ start_block = 0
    /\ end_block = 0
    /\ remaining = 0
    /\ srcpos = 0
    /\ tags = NoTags
    /\ tag_blob = << >>
    /\ old_total = 0
    /\ reread = ReadError("unread")

splitRest == << header, start_block, end_block, remaining, srcpos, tags,
                tag_blob, old_total, reread, lines, album_meta, tracks,
                current_file, current_track >>

\* lines 340-352: no tracks is an error and exit code 1
SplitBegin ==
    /\ pc = "split"
    /\ IF tracks = << >>
       THEN /\ log' = Append(log, "ERROR: no tracks found in CUE file")
            /\ pc' = "exit1"
            /\ i' = i
       ELSE /\ log' = log
            /\ pc' = "loop"
            /\ i' = 1
    /\ UNCHANGED << fs, dsf_headers, ranges, splitRest >>

InLoop == pc = "loop" /\ i <= Len(tracks)

\* lines 355-358: a track with no FILE is reported and passed over
SplitNoFile ==
    /\ InLoop
    /\ tracks[i].file = << >>
    /\ log' = Append(log, "ERROR: track has no FILE reference")
    /\ i' = i + 1
    /\ UNCHANGED << pc, fs, dsf_headers, ranges, splitRest >>

NeedsHeader == tracks[i].file # << >> /\ tracks[i].file \notin DOMAIN dsf_headers

\* lines 362-365: a source that is not there ends the run with exit code 1
SplitMissingSource ==
    /\ InLoop
    /\ NeedsHeader
    /\ fs[tracks[i].file] = NoFile
    /\ log' = Append(log, "ERROR: source file not found")
    /\ pc' = "exit1"
    /\ UNCHANGED << i, fs, dsf_headers, ranges, splitRest >>

\* lines 366-367: read_dsf_header raises, and nothing catches it
SplitBadSource ==
    /\ InLoop
    /\ NeedsHeader
    /\ fs[tracks[i].file] # NoFile
    /\ ~read_dsf_header(fs[tracks[i].file]).ok
    /\ log' = Append(log, "Reading")
    /\ pc' = "raised"
    /\ UNCHANGED << i, fs, dsf_headers, ranges, splitRest >>

\* lines 362-369: the descriptor, from the cache or read now
HeaderFor(file) ==
    IF file \in DOMAIN dsf_headers THEN dsf_headers[file]
    ELSE read_dsf_header(fs[file])

\* line 376
TotalBlocks(h) == h.data_size \div FrameSize(h)

\* lines 379-381, for the track t
StartBlock(t, h) ==
    samples_to_block_index(
        time_to_samples(t.index_m, t.index_s, t.index_f, h.sample_rate),
        h.block_size)

\* An end block that never looks at the next track
EndBlockIgnoresNext(ts, k, h) == TotalBlocks(h)

\* lines 384-390: the start of the next track if it names the same file,
\* else the end of the file
EndBlock(ts, k, h) ==
    IF k + 1 <= Len(ts) /\ ts[k + 1].file = ts[k].file
    THEN StartBlock(ts[k + 1], h)
    ELSE TotalBlocks(h)

\* lines 401-409: the tags of track t
TrackTags(ts, t, album) ==
    [title |-> t.title, artist |-> t.performer, album |-> album.TITLE,
     track_num |-> t.track_num, total_tracks |-> Str(Len(ts)),
     genre |-> album.GENRE, date |-> album.DATE]

\* write_id3_to_dsf on the bytes f with the tag blob, run to its end
write_id3_to_dsf(f, blob) ==
    IF blob = << >> THEN f
    ELSE AppendTag(PatchMeta(PatchTotal(f, Field8(f, 12) + Len(blob)), Field8(f, 12)), blob)

\* lines 139-143: opening the file to tag raises when it does not exist, the
\* assert when it does not start with the container tag
TagRaises(f, blob) ==
    blob # << >> /\ (f = NoFile \/ ReadAt(f, 0, 4) # TagDSD \/ Len(f) < 20)

\* lines 369-409 with a descriptor at hand: the block range, write_dsf_track
\* (which warns and writes nothing for an empty range), write_id3_to_dsf
SplitTrack ==
    /\ InLoop
    /\ tracks[i].file # << >>
    /\ tracks[i].file \in DOMAIN dsf_headers
         \/ (fs[tracks[i].file] # NoFile /\ read_dsf_header(fs[tracks[i].file]).ok)
    /\ LET t    == tracks[i]
           hdr  == HeaderFor(t.file)
           sb   == StartBlock(t, hdr)
           eb   == EndBlock(tracks, i, hdr)
           out  == OutName(t)
           blob == build_id3v2_tag(TrackTags(tracks, t, album_meta))
           afterWrite ==
               [fs EXCEPT ![out] = write_dsf_track(@, fs[t.file], hdr, sb, eb)]
       IN  /\ dsf_headers' = (t.file :> hdr) @@ dsf_headers
           /\ ranges' = Append(ranges, [track |-> i, file |-> t.file,
                                        start |-> sb, end |-> eb])
           /\ log' = (IF t.file \in DOMAIN dsf_headers THEN log
                      ELSE Append(log, "Reading"))
                     \o << IF eb - sb <= 0
                           THEN "WARNING: zero-length track, skipping"
                           ELSE OkMessage >>
           /\ IF TagRaises(afterWrite[out], blob)
              THEN /\ fs' = afterWrite
                   /\ pc' = "raised"
                   /\ i' = i
              ELSE /\ fs' = [afterWrite EXCEPT ![out] = write_id3_to_dsf(@, blob)]
                   /\ pc' = pc
                   /\ i' = i + 1
    /\ UNCHANGED splitRest

\* lines 411-412
SplitDone ==
    /\ pc = "loop"
    /\ i > Len(tracks)
    /\ log' = Append(log, "Done!")
    /\ pc' = "done"
    /\ UNCHANGED << i, fs, dsf_headers, ranges, splitRest >>

NextSplit ==
    \/ SplitBegin
    \/ SplitNoFile
    \/ SplitMissingSource
    \/ SplitBadSource
    \/ SplitTrack
    \/ SplitDone

SpecSplit == InitSplit /\ [][NextSplit]_vars

---------------------------------------------------------------------------
(* Properties of SpecSplit *)

\* The blocks of a range [start, end)
Blocks(r) == r.start..(r.end - 1)

\* The range computed for track k, if one was
HasRange(k) == \E n \in 1..Len(ranges) : ranges[n].track = k

RangeOf(k) == ranges[CHOOSE n \in 1..Len(ranges) : ranges[n].track = k]

ZeroLength(r) == r.end <= r.start

\* C3: for a track whose computed end_block <= start_block no output file
\* is created, a warning is reported, and the run does not stop at that
\* track: the later tracks are still processed.
C3_ZeroLengthSkipContinues ==
    \A n \in 1..Len(ranges) :
        ZeroLength(ranges[n]) =>
            /\ fs[OutName(tracks[ranges[n].track])] = NoFile
            /\ \E k \in 1..Len(log) : log[k] = "WARNING: zero-length track, skipping"
            /\ ~(pc = "raised" /\ i = ranges[n].track)

\* The source files the sheet's tracks name
SheetFiles == { tracks[k].file : k \in 1..Len(tracks) } \ { << >> }

TracksOf(file) == { k \in 1..Len(tracks) : tracks[k].file = file }

\* C4: when the loop has run through the sheet, for every source file with
\* at least one track the ranges [start_block, end_block) of its tracks are
\* pairwise disjoint and their union is [0, total_block_count).
C4_GaplessCoverage ==
    pc = "done" =>
        \A file \in SheetFiles :
            /\ \A k \in TracksOf(file) : HasRange(k)
            /\ \A k, m \in TracksOf(file) :
                   k # m => Blocks(RangeOf(k)) \cap Blocks(RangeOf(m)) = {}
            /\ UNION { Blocks(RangeOf(k)) : k \in TracksOf(file) }
                   = 0..(TotalBlocks(dsf_headers[file]) - 1)

\* p..q is a maximal run of consecutive tracks that name the same file
IsRun(p, q) ==
    /\ p <= q
    /\ tracks[p].file # << >>
    /\ \A k \in p..q : tracks[k].file = tracks[p].file
    /\ p > 1 => tracks[p - 1].file # tracks[p].file
    /\ q < Len(tracks) => tracks[q + 1].file # tracks[p].file

\* The ranges of the run are all computed, the first starts at block 0, and
\* the start blocks neither decrease nor pass the end of the file
RunInOrder(p, q) ==
    /\ \A k \in p..q : HasRange(k)
    /\ RangeOf(p).start = 0
    /\ \A k \in p..(q - 1) : RangeOf(k).start <= RangeOf(k + 1).start
    /\ RangeOf(q).start <= TotalBlocks(dsf_headers[tracks[p].file])

\* C4 as amended: for every maximal run of consecutive tracks naming one
\* source file whose first track starts at block 0 and whose start blocks
\* neither decrease nor pass total_block_count, end_block of each track is
\* start_block of the next, the last ends at total_block_count, the ranges
\* are pairwise disjoint and their union is [0, total_block_count).
C4_GaplessRuns ==
    \A p, q \in 1..Len(tracks) :
        (IsRun(p, q) /\ RunInOrder(p, q)) =>
            /\ \A k \in p..(q - 1) : RangeOf(k).end = RangeOf(k + 1).start
            /\ RangeOf(q).end = TotalBlocks(dsf_headers[tracks[p].file])
            /\ \A k, m \in p..q :
                   k # m => Blocks(RangeOf(k)) \cap Blocks(RangeOf(m)) = {}
            /\ UNION { Blocks(RangeOf(k)) : k \in p..q }
                   = 0..(TotalBlocks(dsf_headers[tracks[p].file]) - 1)

\* C4's case: the run is over, and three tracks of "a" starting at blocks
\* 0, 1 and 2 were each given a range
C4_Witness ==
    /\ pc = "done"
    /\ Len(tracks) = 3
    /\ IsRun(1, 3)
    /\ RunInOrder(1, 3)
    /\ RangeOf(2).start = 1
    /\ RangeOf(3).start = 2

====
